---- MODULE Spec2Model ----
(***************************************************************************)
(* Model of the turbofan architecture elements of open_turb_arch:          *)
(*   architecture/architecture.py            ArchElement, TurbofanArchitecture *)
(*   evaluation/architecture/flow.py         Inlet .. Nozzle               *)
(*   evaluation/architecture/turbomachinery.py  Compressor .. Shaft        *)
(*                                                                         *)
(* Element objects live in `heap` (an object's identity is its index), the  *)
(* private back-reference BaseTurboMachinery.__shaft lives in `shaft`.      *)
(* The pyCycle containers are modelled as the ordered log of the calls the *)
(* elements make on them: `cycle` (modules, flow edges, plain connections, *)
(* input defaults) and `mp` (cycle parameters, design/off-design links).   *)
(* A dotted path '<a>.<b>' is the pair <<a, b>>: a is the text before the  *)
(* first dot (the module the path addresses), b the rest.                  *)
(***************************************************************************)
EXTENDS Integers, Sequences, FiniteSets, TLC

VARIABLES heap, shaft, arch, cycle, mp, pc, idx, design, err, cmp

vars == <<heap, shaft, arch, cycle, mp, pc, idx, design, err, cmp>>

----------------------------------------------------------------------------
(* Bounds *)

\* Largest number of element objects constructed in the flow-path specification.
MaxElems == 2
\* Longest bleed_names list given to a BleedInter / BleedIntra.
MaxBleeds == 2
\* Number of turbomachinery objects at hand in the shaft specification.
MaxTurbo == 2
\* Largest number of Shaft constructions attempted.
MaxShafts == 2
\* Longest connections list given to a Shaft.
MaxConns == 2

----------------------------------------------------------------------------
(* Values *)

\* Python's None, for an attribute that holds an element reference.
None == 0

\* '%s' % None, for a str attribute left at None and then formatted.
NoneStr == "None"

\* '%s.%s' % (a, b), also a + '.' + b
Fmt(a, b) == <<a, b>>

\* The module a dotted path addresses: the text before its first dot.
ModuleOf(path) == path[1]

ElName(i) == "e" \o ToString(i)

BleedName(i) == "bld" \o ToString(i)

\* The bleed_names lists enumerated: the first n names, n = 0 .. MaxBleeds.
BleedLists == { [i \in 1..n |-> BleedName(i)] : n \in 0..MaxBleeds }

SeqsUpTo(S, n) == UNION { [1..k -> S] : k \in 0..n }

----------------------------------------------------------------------------
(* The dataclasses: one record per object, its fields those of the class.  *)

Inlet(name, target) ==
    [kind |-> "Inlet", name |-> name, target |-> target,
     mach |-> "0.6", p_recovery |-> "1.0"]

Duct(name, target) ==
    [kind |-> "Duct", name |-> name, target |-> target, mach |-> "0.3",
     p_loss_frac |-> "0.0", fuel_in_air |-> FALSE, statics |-> TRUE,
     design |-> TRUE]

Splitter(name, target_core, target_bypass) ==
    [kind |-> "Splitter", name |-> name, target_core |-> target_core,
     target_bypass |-> target_bypass, bpr |-> "1.0", core_mach |-> "0.3",
     bypass_mach |-> "0.3"]

Mixer(name, source_1, source_2, target) ==
    [kind |-> "Mixer", name |-> name, source_1 |-> source_1,
     source_2 |-> source_2, target |-> target, mach |-> "0.3"]

BleedInter(name, target, target_bleed, bleed_names) ==
    [kind |-> "BleedInter", name |-> name, target |-> target,
     target_bleed |-> target_bleed, mach |-> "0.3", source_frac_w |-> "0.05",
     target_frac_p |-> "1.0", fuel_in_air |-> FALSE,
     bleed_names |-> bleed_names]

BleedIntra(name, source, target, bleed_names) ==
    [kind |-> "BleedIntra", name |-> name, source |-> source,
     target |-> target, mach |-> "0.3", source_frac_w |-> "0.05",
     source_frac_p |-> "1.0", source_frac_work |-> "1.0",
     target_frac_p |-> "1.0", fuel_in_air |-> FALSE,
     bleed_names |-> bleed_names]

Nozzle(name, target, flow_out) ==
    [kind |-> "Nozzle", name |-> name, target |-> target, type |-> "CV",
     v_loss_coefficient |-> "1.0", fuel_in_air |-> TRUE,
     flow_out |-> flow_out]

Compressor(name, target) ==
    [kind |-> "Compressor", name |-> name, target |-> target,
     map |-> "AXI5", mach |-> "0.01", pr |-> "5.0", eff |-> "1.0"]

Burner(name, target) ==
    [kind |-> "Burner", name |-> name, target |-> target,
     fuel |-> "Jet-A(g)", mach |-> "0.01", p_loss_frac |-> "0.0"]

Turbine(name, target) ==
    [kind |-> "Turbine", name |-> name, target |-> target,
     map |-> "LPT2269", mach |-> "0.4", eff |-> "1.0"]

\* has_connections is FALSE for connections = None (the field's default).
Shaft(name, connections, has_connections) ==
    [kind |-> "Shaft", name |-> name, connections |-> connections,
     has_connections |-> has_connections, rpm_design |-> "10000.0",
     power_loss |-> "0.0"]

IsTurbo(el) == el.kind \in {"Compressor", "Turbine"}

----------------------------------------------------------------------------
(* The containers, as the log of the calls made on them.                    *)

EmptyCycle == [modules |-> <<>>, flows |-> <<>>, connects |-> <<>>,
               defaults |-> <<>>]

EmptyMP == [params |-> <<>>, links |-> <<>>]

\* cycle.pyc_add_element(name, el, promotes_inputs=promotes)
pyc_add_element(cyc, name, el, promotes) ==
    [cyc EXCEPT !.modules =
        Append(@, [name |-> name, el |-> el, promotes_inputs |-> promotes])]

\* el.set_input_defaults(input, val) on the module added under `scope`.
set_input_defaults(cyc, scope, input, val) ==
    [cyc EXCEPT !.defaults =
        Append(@, [scope |-> scope, input |-> input, val |-> val])]

\* cycle.set_input_defaults(input, val, units=units), on the cycle itself.
cycle_set_input_defaults(cyc, input, val, units) ==
    [cyc EXCEPT !.defaults =
        Append(@, [scope |-> "cycle", input |-> input, val |-> val,
                   units |-> units])]

\* cycle.pyc_connect_flow(src, dst, connect_w=.., connect_stat=..)
pyc_connect_flow(cyc, src, dst, connect_w, connect_stat) ==
    [cyc EXCEPT !.flows =
        Append(@, [src |-> src, dst |-> dst, connect_w |-> connect_w,
                   connect_stat |-> connect_stat])]

\* cycle.connect(src, dst)
om_connect(cyc, src, dst) ==
    [cyc EXCEPT !.connects = Append(@, [src |-> src, dst |-> dst])]

\* mp_cycle.pyc_add_cycle_param(name, val)
pyc_add_cycle_param(m, name, val) ==
    [m EXCEPT !.params = Append(@, [name |-> name, val |-> val])]

\* mp_cycle.pyc_connect_des_od(src, target)
pyc_connect_des_od(m, src, target) ==
    [m EXCEPT !.links = Append(@, [src |-> src, target |-> target])]

\* What a method hands back: the container as it left it and the exception
\* it raised ("none": it returned).
Ok(c) == [err |-> "none", c |-> c]

Raise(e, c) == [err |-> e, c |-> c]

\* The exceptions, by the names the specification gives them.
UnboundTurbomachinery == "ValueError: Not connected to shaft"

DuplicateShaftBinding == "ValueError: Shaft already set"

InvalidShaftTopology ==
    "ValueError: Shaft should at least connect two turbomachinery elements!"

AttributeError == "AttributeError: 'NoneType' object has no attribute 'name'"

TypeError == "TypeError: 'NoneType' object is not iterable"

----------------------------------------------------------------------------
(* architecture.py *)

\* ArchElement._connect_flow_target
connect_flow_target(self, cyc, target, out_flow, in_flow) ==
    IF target # None
    THEN pyc_connect_flow(cyc, Fmt(self.name, out_flow),
                          Fmt(heap[target].name, in_flow), TRUE, TRUE)
    ELSE cyc

----------------------------------------------------------------------------
(* flow.py *)

Inlet_add_element(self, cyc, des) ==
    LET c1 == pyc_add_element(cyc, self.name,
                  [cls |-> "Inlet", design |-> des,
                   elements |-> "AIR_ELEMENTS"], <<>>)
    IN  Ok(IF des THEN set_input_defaults(c1, self.name, "MN", self.mach)
                  ELSE c1)

Inlet_connect(self, cyc) ==
    LET c1 == pyc_connect_flow(cyc, Fmt("fc", "Fl_O"),
                               Fmt(self.name, "Fl_I"), FALSE, TRUE)
    IN  Ok(connect_flow_target(self, c1, self.target, "Fl_O", "Fl_I"))

Inlet_add_cycle_params(self, m) ==
    Ok(pyc_add_cycle_param(m, Fmt(self.name, "ram_recovery"),
                           self.p_recovery))

Inlet_connect_des_od(self, m) ==
    Ok(pyc_connect_des_od(m, Fmt(self.name, "Fl_O:stat:area"),
                          Fmt(self.name, "area")))

Duct_add_element(self, cyc, des) ==
    Ok(pyc_add_element(cyc, self.name,
           [cls |-> "Duct", design |-> des, statics |-> self.statics,
            elements |-> IF self.fuel_in_air THEN "AIR_FUEL_ELEMENTS"
                                             ELSE "AIR_ELEMENTS"], <<>>))

Duct_connect(self, cyc) ==
    Ok(connect_flow_target(self, cyc, self.target, "Fl_O", "Fl_I"))

Duct_connect_des_od(self, m) ==
    Ok(pyc_connect_des_od(m, Fmt(self.name, "Fl_O:stat:area"),
                          Fmt(self.name, "area")))

Splitter_add_element(self, cyc, des) ==
    LET c1 == pyc_add_element(cyc, self.name,
                  [cls |-> "Splitter", design |-> des,
                   elements |-> "AIR_ELEMENTS"], <<>>)
        c2 == set_input_defaults(c1, self.name, "BPR", self.bpr)
        c3 == set_input_defaults(c2, self.name, "MN1", self.core_mach)
        c4 == set_input_defaults(c3, self.name, "MN2", self.bypass_mach)
    IN  Ok(IF des THEN c4 ELSE c1)

\* Splitter.connect with the two output ports exchanged.
Splitter_connect_swapped(self, cyc) ==
    LET c1 == connect_flow_target(self, cyc, self.target_core,
                                  "Fl_O2", "Fl_I")
    IN  Ok(connect_flow_target(self, c1, self.target_bypass,
                               "Fl_O1", "Fl_I"))

Splitter_connect(self, cyc) ==
    LET c1 == connect_flow_target(self, cyc, self.target_core,
                                  "Fl_O1", "Fl_I")
    IN  Ok(connect_flow_target(self, c1, self.target_bypass,
                               "Fl_O2", "Fl_I"))

Splitter_connect_des_od(self, m) ==
    LET m1 == pyc_connect_des_od(m, Fmt(self.name, "Fl_O1:stat:area"),
                                 Fmt(self.name, "area1"))
    IN  Ok(pyc_connect_des_od(m1, Fmt(self.name, "Fl_O2:stat:area"),
                              Fmt(self.name, "area2")))

Mixer_add_element(self, cyc, des) ==
    Ok(pyc_add_element(cyc, self.name,
           [cls |-> "Mixer", design |-> des,
            Fl_I1_elements |-> "AIR_FUEL_ELEMENTS",
            Fl_I2_elements |-> "AIR_ELEMENTS"], <<>>))

Mixer_connect(self, cyc) ==
    Ok(connect_flow_target(self, cyc, self.target, "Fl_O", "Fl_I"))

\* The second link's target is self.name+'Fl_I1_stat_calc.area': no dot
\* between the name and 'Fl_I1_stat_calc'.
Mixer_connect_des_od(self, m) ==
    LET m1 == pyc_connect_des_od(m, Fmt(self.name, "Fl_O:stat:area"),
                                 Fmt(self.name, "area1"))
    IN  Ok(pyc_connect_des_od(m1, Fmt(self.name, "Fl_I1_calc:stat:area"),
                              Fmt(self.name \o "Fl_I1_stat_calc", "area")))
BleedInter_add_element(self, cyc, des) ==
    Ok(pyc_add_element(cyc, self.name,
           [cls |-> "BleedOut", design |-> des,
            bleed_names |-> self.bleed_names,
            elements |-> IF self.fuel_in_air THEN "AIR_FUEL_ELEMENTS"
                                             ELSE "AIR_ELEMENTS"], <<>>))

\* The loop of BleedInter.connect from its i-th bleed name on.
RECURSIVE BleedInter_connect_loop(_, _, _)
BleedInter_connect_loop(self, cyc, i) ==
    IF i > Len(self.bleed_names) THEN cyc
    ELSE BleedInter_connect_loop(self,
             pyc_connect_flow(cyc, Fmt(self.name, self.bleed_names[i]),
                              Fmt(self.target_bleed, self.bleed_names[i]),
                              TRUE, FALSE),
             i + 1)

BleedInter_connect(self, cyc) ==
    IF self.target = None
    THEN Ok(pyc_connect_flow(cyc, Fmt(self.name, "Fl_O"), Fmt("fc", "Fl_I"),
                             FALSE, TRUE))
    ELSE Ok(BleedInter_connect_loop(self,
                connect_flow_target(self, cyc, self.target, "Fl_O", "Fl_I"),
                1))

\* The loop of BleedInter.add_cycle_params from its i-th bleed name on.
RECURSIVE BleedInter_params_loop(_, _, _)
BleedInter_params_loop(self, m, i) ==
    IF i > Len(self.bleed_names) THEN m
    ELSE LET bn == self.bleed_names[i]
             m1 == pyc_add_cycle_param(m,
                       Fmt(self.name, bn \o ":frac_W"), self.source_frac_w)
             m2 == pyc_add_cycle_param(m1,
                       Fmt(self.target_bleed, bn \o ":frac_P"),
                       self.target_frac_p)
         IN  BleedInter_params_loop(self, m2, i + 1)

BleedInter_add_cycle_params(self, m) ==
    IF self.target = None THEN Ok(m)
    ELSE Ok(BleedInter_params_loop(self, m, 1))

\* BleedInter.connect_des_od that links the exit area only with a target.
BleedInter_connect_des_od_if_target(self, m) ==
    IF self.target = None THEN Ok(m)
    ELSE Ok(pyc_connect_des_od(m, Fmt(self.name, "Fl_O:stat:area"),
                               Fmt(self.name, "area")))

BleedInter_connect_des_od(self, m) ==
    Ok(pyc_connect_des_od(m, Fmt(self.name, "Fl_O:stat:area"),
                          Fmt(self.name, "area")))

BleedIntra_add_element(self, cyc, des) == Ok(cyc)

\* The loop of BleedIntra.connect from its i-th bleed name on; self.source
\* and self.target are elements here.
RECURSIVE BleedIntra_connect_loop(_, _, _)
BleedIntra_connect_loop(self, cyc, i) ==
    IF i > Len(self.bleed_names) THEN cyc
    ELSE BleedIntra_connect_loop(self,
             pyc_connect_flow(cyc,
                 Fmt(heap[self.source].name, self.bleed_names[i]),
                 Fmt(heap[self.target].name, self.bleed_names[i]),
                 TRUE, FALSE),
             i + 1)

\* self.source.name raises on the first pass of the loop when source is None.
BleedIntra_connect(self, cyc) ==
    IF self.target = None
    THEN Ok(pyc_connect_flow(cyc, Fmt(self.name, "Fl_O"), Fmt("fc", "Fl_I"),
                             FALSE, TRUE))
    ELSE IF self.bleed_names # <<>> /\ self.source = None
         THEN Raise(AttributeError, cyc)
         ELSE Ok(BleedIntra_connect_loop(self, cyc, 1))

\* The loop of BleedIntra.add_cycle_params without the frac_work parameter.
RECURSIVE BleedIntra_params_loop_no_work(_, _, _)
BleedIntra_params_loop_no_work(self, m, i) ==
    IF i > Len(self.bleed_names) THEN m
    ELSE LET bn == self.bleed_names[i]
             src == heap[self.source].name
             m1 == pyc_add_cycle_param(m, Fmt(src, bn \o ":frac_W"),
                                       self.source_frac_w)
             m2 == pyc_add_cycle_param(m1, Fmt(src, bn \o ":frac_P"),
                                       self.source_frac_p)
             m4 == pyc_add_cycle_param(m2,
                       Fmt(heap[self.target].name, bn \o ":frac_P"),
                       self.target_frac_p)
         IN  BleedIntra_params_loop_no_work(self, m4, i + 1)

\* The loop of BleedIntra.add_cycle_params from its i-th bleed name on.
RECURSIVE BleedIntra_params_loop(_, _, _)
BleedIntra_params_loop(self, m, i) ==
    IF i > Len(self.bleed_names) THEN m
    ELSE LET bn == self.bleed_names[i]
             src == heap[self.source].name
             m1 == pyc_add_cycle_param(m, Fmt(src, bn \o ":frac_W"),
                                       self.source_frac_w)
             m2 == pyc_add_cycle_param(m1, Fmt(src, bn \o ":frac_P"),
                                       self.source_frac_p)
             m3 == pyc_add_cycle_param(m2, Fmt(src, bn \o ":frac_work"),
                                       self.source_frac_work)
             m4 == pyc_add_cycle_param(m3,
                       Fmt(heap[self.target].name, bn \o ":frac_P"),
                       self.target_frac_p)
         IN  BleedIntra_params_loop(self, m4, i + 1)

BleedIntra_add_cycle_params(self, m) ==
    IF self.target = None THEN Ok(m)
    ELSE IF self.bleed_names # <<>> /\ self.source = None
         THEN Raise(AttributeError, m)
         ELSE Ok(BleedIntra_params_loop(self, m, 1))

BleedIntra_connect_des_od(self, m) == Ok(m)

Nozzle_add_element(self, cyc, des) ==
    Ok(pyc_add_element(cyc, self.name,
           [cls |-> "Nozzle", nozzType |-> self.type, lossCoef |-> "Cv",
            elements |-> IF self.fuel_in_air THEN "AIR_FUEL_ELEMENTS"
                                             ELSE "AIR_ELEMENTS"], <<>>))

Nozzle_connect(self, cyc) ==
    IF self.target = None
    THEN Ok(om_connect(cyc, Fmt("fc", "Fl_O:stat:P"),
                       Fmt(self.name, "Ps_exhaust")))
    ELSE Ok(connect_flow_target(self, cyc, self.target, "Fl_O",
                                self.flow_out))

Nozzle_add_cycle_params(self, m) ==
    Ok(pyc_add_cycle_param(m, Fmt(self.name, "Cv"),
                           self.v_loss_coefficient))

Nozzle_connect_des_od(self, m) == Ok(m)

----------------------------------------------------------------------------
(* turbomachinery.py *)

\* BaseTurboMachinery.shaft (the property's getter), for the object e.
shaft_of(e) == shaft[e]

\* Compressor.add_element that seeds the design default before it tests the
\* shaft.
Compressor_add_element_late_test(e, self, cyc, des) ==
    LET c0 == IF des THEN set_input_defaults(cyc, self.name, "MN", self.mach)
                     ELSE cyc
    IN  IF shaft_of(e) = None THEN Raise(UnboundTurbomachinery, c0)
        ELSE Ok(pyc_add_element(c0, self.name,
                    [cls |-> "Compressor", map_data |-> self.map,
                     design |-> des, elements |-> "AIR_MIX"],
                    << <<"Nmech", heap[shaft_of(e)].name \o "_Nmech">> >>))

Compressor_add_element(e, self, cyc, des) ==
    IF shaft_of(e) = None THEN Raise(UnboundTurbomachinery, cyc)
    ELSE LET c1 == pyc_add_element(cyc, self.name,
                       [cls |-> "Compressor", map_data |-> self.map,
                        design |-> des, elements |-> "AIR_MIX"],
                       << <<"Nmech", heap[shaft_of(e)].name \o "_Nmech">> >>)
         IN  Ok(IF des
                THEN set_input_defaults(c1, self.name, "MN", self.mach)
                ELSE c1)

Compressor_connect(self, cyc) ==
    Ok(connect_flow_target(self, cyc, self.target, "Fl_O", "Fl_I"))

\* The loop over the scale-factor names of connect_des_od.
RECURSIVE scale_links(_, _, _, _)
scale_links(self, m, params, i) ==
    IF i > Len(params) THEN m
    ELSE scale_links(self,
             pyc_connect_des_od(m, Fmt(self.name, params[i]),
                                Fmt(self.name, params[i])),
             params, i + 1)

\* Compressor.connect_des_od without the speed scale factor s_Nc.
Compressor_connect_des_od_no_s_Nc(self, m) ==
    LET m1 == scale_links(self, m, <<"s_PR", "s_Wc", "s_eff">>, 1)
    IN  Ok(pyc_connect_des_od(m1, Fmt(self.name, "Fl_O:stat:area"),
                              Fmt(self.name, "area")))

Compressor_connect_des_od(self, m) ==
    LET m1 == scale_links(self, m, <<"s_PR", "s_Wc", "s_eff", "s_Nc">>, 1)
    IN  Ok(pyc_connect_des_od(m1, Fmt(self.name, "Fl_O:stat:area"),
                              Fmt(self.name, "area")))

Burner_add_element(self, cyc, des) ==
    LET c1 == pyc_add_element(cyc, self.name,
                  [cls |-> "Combustor", design |-> des,
                   inflow_elements |-> "AIR_MIX",
                   air_fuel_elements |-> "AIR_FUEL_MIX",
                   fuel_type |-> self.fuel], <<>>)
    IN  Ok(IF des THEN set_input_defaults(c1, self.name, "MN", self.mach)
                  ELSE c1)

Burner_connect(self, cyc) ==
    Ok(connect_flow_target(self, cyc, self.target, "Fl_O", "Fl_I"))

Burner_add_cycle_params(self, m) ==
    Ok(pyc_add_cycle_param(m, Fmt(self.name, "dPqP"), self.p_loss_frac))

Burner_connect_des_od(self, m) ==
    Ok(pyc_connect_des_od(m, Fmt(self.name, "Fl_O:stat:area"),
                          Fmt(self.name, "area")))

Turbine_add_element(e, self, cyc, des) ==
    IF shaft_of(e) = None THEN Raise(UnboundTurbomachinery, cyc)
    ELSE LET c1 == pyc_add_element(cyc, self.name,
                       [cls |-> "Turbine", map_data |-> self.map,
                        design |-> des, elements |-> "AIR_FUEL_MIX"],
                       << <<"Nmech", heap[shaft_of(e)].name \o "_Nmech">> >>)
         IN  Ok(IF des
                THEN set_input_defaults(c1, self.name, "MN", self.mach)
                ELSE c1)

Turbine_connect(self, cyc) ==
    Ok(connect_flow_target(self, cyc, self.target, "Fl_O", "Fl_I"))

Turbine_connect_des_od(self, m) ==
    LET m1 == scale_links(self, m, <<"s_PR", "s_Wp", "s_eff", "s_Np">>, 1)
    IN  Ok(pyc_connect_des_od(m1, Fmt(self.name, "Fl_O:stat:area"),
                              Fmt(self.name, "area")))

\* Shaft.__post_init__ without the test of conn.shaft: a bound element is
\* bound anew.
RECURSIVE Shaft_post_init_rebind(_, _, _, _)
Shaft_post_init_rebind(sid, conns, i, sh) ==
    IF i > Len(conns) THEN Ok(sh)
    ELSE Shaft_post_init_rebind(sid, conns, i + 1,
                                [sh EXCEPT ![conns[i]] = sid])

\* Shaft.__post_init__ for the new object `sid`, from the i-th connection
\* on: sh is the back-reference map so far. A raise leaves the bindings made
\* before it in place.
RECURSIVE Shaft_post_init(_, _, _, _)
Shaft_post_init(sid, conns, i, sh) ==
    IF i > Len(conns) THEN Ok(sh)
    ELSE IF sh[conns[i]] # None THEN Raise(DuplicateShaftBinding, sh)
    ELSE Shaft_post_init(sid, conns, i + 1, [sh EXCEPT ![conns[i]] = sid])

\* Shaft.__post_init__: iterating connections = None raises before any
\* binding.
Shaft_init(sid, self, sh) ==
    IF ~self.has_connections THEN Raise(TypeError, sh)
    ELSE Shaft_post_init(sid, self.connections, 1, sh)

\* Shaft.add_element that asks for one connection only (len < 1).
Shaft_add_element_min_1(self, cyc, des) ==
    IF ~self.has_connections \/ Len(self.connections) < 1
    THEN Raise(InvalidShaftTopology, cyc)
    ELSE LET c1 == pyc_add_element(cyc, self.name,
                       [cls |-> "Shaft",
                        num_ports |-> Len(self.connections)],
                       << <<"Nmech", self.name \o "_Nmech">> >>)
         IN  Ok(IF des
                THEN cycle_set_input_defaults(c1, self.name \o "_Nmech",
                                              self.rpm_design, "RPM")
                ELSE c1)

Shaft_add_element(self, cyc, des) ==
    IF ~self.has_connections \/ Len(self.connections) < 2
    THEN Raise(InvalidShaftTopology, cyc)
    ELSE LET c1 == pyc_add_element(cyc, self.name,
                       [cls |-> "Shaft",
                        num_ports |-> Len(self.connections)],
                       << <<"Nmech", self.name \o "_Nmech">> >>)
         IN  Ok(IF des
                THEN cycle_set_input_defaults(c1, self.name \o "_Nmech",
                                              self.rpm_design, "RPM")
                ELSE c1)

\* Shaft.connect with the torque ports numbered from 1 instead of 0.
RECURSIVE Shaft_connect_from_1_loop(_, _, _)
Shaft_connect_from_1_loop(self, cyc, i) ==
    IF i > Len(self.connections) THEN cyc
    ELSE Shaft_connect_from_1_loop(self,
             om_connect(cyc, Fmt(heap[self.connections[i]].name, "trq"),
                        Fmt(self.name, "trq_" \o ToString(i))),
             i + 1)

Shaft_connect_from_1(self, cyc) == Ok(Shaft_connect_from_1_loop(self, cyc, 1))

\* The loop of Shaft.connect from the i-th connection on (enumerate counts
\* from 0).
RECURSIVE Shaft_connect_loop(_, _, _)
Shaft_connect_loop(self, cyc, i) ==
    IF i > Len(self.connections) THEN cyc
    ELSE Shaft_connect_loop(self,
             om_connect(cyc, Fmt(heap[self.connections[i]].name, "trq"),
                        Fmt(self.name, "trq_" \o ToString(i - 1))),
             i + 1)

Shaft_connect(self, cyc) == Ok(Shaft_connect_loop(self, cyc, 1))

Shaft_add_cycle_params(self, m) ==
    Ok(pyc_add_cycle_param(m, Fmt(self.name, "fracLoss"), self.power_loss))

Shaft_connect_des_od(self, m) == Ok(m)

----------------------------------------------------------------------------
(* The element contract, dispatched on the object's class.                 *)

add_element(e, cyc, des) ==
    LET self == heap[e] IN
    CASE self.kind = "Inlet"      -> Inlet_add_element(self, cyc, des)
      [] self.kind = "Duct"       -> Duct_add_element(self, cyc, des)
      [] self.kind = "Splitter"   -> Splitter_add_element(self, cyc, des)
      [] self.kind = "Mixer"      -> Mixer_add_element(self, cyc, des)
      [] self.kind = "BleedInter" -> BleedInter_add_element(self, cyc, des)
      [] self.kind = "BleedIntra" -> BleedIntra_add_element(self, cyc, des)
      [] self.kind = "Nozzle"     -> Nozzle_add_element(self, cyc, des)
      [] self.kind = "Compressor" -> Compressor_add_element(e, self, cyc, des)
      [] self.kind = "Burner"     -> Burner_add_element(self, cyc, des)
      [] self.kind = "Turbine"    -> Turbine_add_element(e, self, cyc, des)
      [] self.kind = "Shaft"      -> Shaft_add_element(self, cyc, des)

connect(e, cyc) ==
    LET self == heap[e] IN
    CASE self.kind = "Inlet"      -> Inlet_connect(self, cyc)
      [] self.kind = "Duct"       -> Duct_connect(self, cyc)
      [] self.kind = "Splitter"   -> Splitter_connect(self, cyc)
      [] self.kind = "Mixer"      -> Mixer_connect(self, cyc)
      [] self.kind = "BleedInter" -> BleedInter_connect(self, cyc)
      [] self.kind = "BleedIntra" -> BleedIntra_connect(self, cyc)
      [] self.kind = "Nozzle"     -> Nozzle_connect(self, cyc)
      [] self.kind = "Compressor" -> Compressor_connect(self, cyc)
      [] self.kind = "Burner"     -> Burner_connect(self, cyc)
      [] self.kind = "Turbine"    -> Turbine_connect(self, cyc)
      [] self.kind = "Shaft"      -> Shaft_connect(self, cyc)

\* ArchElement.add_cycle_params is the default (no parameters) for the
\* classes that do not override it.
add_cycle_params(e, m) ==
    LET self == heap[e] IN
    CASE self.kind = "Inlet"      -> Inlet_add_cycle_params(self, m)
      [] self.kind = "BleedInter" -> BleedInter_add_cycle_params(self, m)
      [] self.kind = "BleedIntra" -> BleedIntra_add_cycle_params(self, m)
      [] self.kind = "Nozzle"     -> Nozzle_add_cycle_params(self, m)
      [] self.kind = "Burner"     -> Burner_add_cycle_params(self, m)
      [] self.kind = "Shaft"      -> Shaft_add_cycle_params(self, m)
      [] OTHER                    -> Ok(m)

connect_des_od(e, m) ==
    LET self == heap[e] IN
    CASE self.kind = "Inlet"      -> Inlet_connect_des_od(self, m)
      [] self.kind = "Duct"       -> Duct_connect_des_od(self, m)
      [] self.kind = "Splitter"   -> Splitter_connect_des_od(self, m)
      [] self.kind = "Mixer"      -> Mixer_connect_des_od(self, m)
      [] self.kind = "BleedInter" -> BleedInter_connect_des_od(self, m)
      [] self.kind = "BleedIntra" -> BleedIntra_connect_des_od(self, m)
      [] self.kind = "Nozzle"     -> Nozzle_connect_des_od(self, m)
      [] self.kind = "Compressor" -> Compressor_connect_des_od(self, m)
      [] self.kind = "Burner"     -> Burner_connect_des_od(self, m)
      [] self.kind = "Turbine"    -> Turbine_connect_des_od(self, m)
      [] self.kind = "Shaft"      -> Shaft_connect_des_od(self, m)
----------------------------------------------------------------------------
(* Equality and hash of elements.                                          *)

\* A bare ArchElement (the base class instantiated as it is).
ArchElement(name) == [kind |-> "ArchElement", name |-> name]

\* The fields of a class that hold element references.
RefFields == {"target", "target_core", "target_bypass", "source_1",
              "source_2", "source"}

\* The __eq__ that @dataclass generates for every element class (eq=True is
\* the decorator's default and no class defines __eq__): objects of the same
\* class compare as the tuples of their fields, objects of different classes
\* fall back to identity. Tuple and list comparison take identical items as
\* equal and compare the others with ==; the private __shaft is no field.
RECURSIVE dataclass_eq(_, _)
dataclass_eq(a, b) ==
    LET ra == heap[a]
        rb == heap[b]
        item_eq(x, y) ==
            \/ x = y
            \/ x # None /\ y # None /\ dataclass_eq(x, y)
    IN  IF ra.kind # rb.kind THEN a = b
        ELSE /\ \A f \in DOMAIN ra \ (RefFields \cup {"connections"}) :
                    ra[f] = rb[f]
             /\ \A f \in DOMAIN ra \cap RefFields : item_eq(ra[f], rb[f])
             /\ "connections" \in DOMAIN ra =>
                    /\ Len(ra.connections) = Len(rb.connections)
                    /\ \A i \in 1..Len(ra.connections) :
                           item_eq(ra.connections[i], rb.connections[i])

\* hash(e). ArchElement.__hash__ is id(self); a subclass decorated with
\* @dataclass (eq=True, frozen=False) that defines no __hash__ of its own has
\* its __hash__ set to None, so its objects are unhashable.
element_hash(e) ==
    IF heap[e].kind = "ArchElement" THEN [err |-> "none", c |-> e]
    ELSE [err |-> "TypeError: unhashable type", c |-> None]

----------------------------------------------------------------------------
(* Actions *)

\* No comparison made yet.
NoCmp == [a |-> None, b |-> None, eq |-> FALSE,
          hash_a |-> [err |-> "none", c |-> None],
          hash_b |-> [err |-> "none", c |-> None]]

\* The dataclass constructor of an element that is no Shaft. The builder
\* lists the new object in the architecture. BaseTurboMachinery.__post_init__
\* sets __shaft to None (the other classes have no such attribute).
Construct(self) ==
    /\ pc = "construct"
    /\ heap' = Append(heap, self)
    /\ shaft' = Append(shaft, None)
    /\ arch' = Append(arch, Len(heap) + 1)
    /\ err' = "none"
    /\ UNCHANGED <<cycle, mp, pc, idx, design, cmp>>

\* Shaft(name, connections): __init__ sets the fields, __post_init__ binds the
\* connections. When it raises, the caller never gets the object (it is not
\* listed in the architecture), and the bindings made before the raise stay.
ConstructShaft(self) ==
    LET sid == Len(heap) + 1
        r == Shaft_init(sid, self, Append(shaft, None))
    IN  /\ pc = "construct"
        /\ heap' = Append(heap, self)
        /\ shaft' = r.c
        /\ arch' = IF r.err = "none" THEN Append(arch, sid) ELSE arch
        /\ err' = r.err
        /\ UNCHANGED <<cycle, mp, pc, idx, design, cmp>>

\* a == b, hash(a) and hash(b) for two constructed objects.
Compare(a, b) ==
    /\ pc = "construct"
    /\ cmp' = [a |-> a, b |-> b, eq |-> dataclass_eq(a, b),
               hash_a |-> element_hash(a), hash_b |-> element_hash(b)]
    /\ UNCHANGED <<heap, shaft, arch, cycle, mp, pc, idx, design, err>>

(* The build orchestrator: each phase runs over the whole element list, in  *)
(* list order, before the next phase starts; the first exception ends the   *)
(* build.                                                                   *)

\* The orchestrator's position after the phase `pc` has handled arch[idx].
Advance(next) ==
    IF idx < Len(arch) THEN pc' = pc /\ idx' = idx + 1
                       ELSE pc' = next /\ idx' = 1

\* The build starts, for a design point (des) or an off-design point.
StartBuild(des) ==
    /\ pc = "construct"
    /\ design' = des
    /\ pc' = IF arch = <<>> THEN "done" ELSE "realize"
    /\ idx' = 1
    /\ err' = "none"
    /\ UNCHANGED <<heap, shaft, arch, cycle, mp, cmp>>

\* Realize: add_element of the next element.
Realize ==
    /\ pc = "realize"
    /\ LET r == add_element(arch[idx], cycle, design)
       IN  /\ cycle' = r.c
           /\ err' = r.err
           /\ IF r.err = "none" THEN Advance("wire")
                                ELSE pc' = "failed" /\ idx' = idx
    /\ UNCHANGED <<heap, shaft, arch, mp, design, cmp>>

\* Wire: connect of the next element.
Wire ==
    /\ pc = "wire"
    /\ LET r == connect(arch[idx], cycle)
       IN  /\ cycle' = r.c
           /\ err' = r.err
           /\ IF r.err = "none" THEN Advance("params")
                                ELSE pc' = "failed" /\ idx' = idx
    /\ UNCHANGED <<heap, shaft, arch, mp, design, cmp>>

\* DeclareParameters: add_cycle_params of the next element.
DeclareParameters ==
    /\ pc = "params"
    /\ LET r == add_cycle_params(arch[idx], mp)
       IN  /\ mp' = r.c
           /\ err' = r.err
           /\ IF r.err = "none" THEN Advance("link")
                                ELSE pc' = "failed" /\ idx' = idx
    /\ UNCHANGED <<heap, shaft, arch, cycle, design, cmp>>

\* LinkDesignOffDesign: connect_des_od of the next element.
LinkDesignOffDesign ==
    /\ pc = "link"
    /\ LET r == connect_des_od(arch[idx], mp)
       IN  /\ mp' = r.c
           /\ err' = r.err
           /\ IF r.err = "none" THEN Advance("done")
                                ELSE pc' = "failed" /\ idx' = idx
    /\ UNCHANGED <<heap, shaft, arch, cycle, design, cmp>>

Build ==
    \/ \E des \in BOOLEAN : StartBuild(des)
    \/ Realize
    \/ Wire
    \/ DeclareParameters
    \/ LinkDesignOffDesign

\* Nothing constructed, nothing built.
Init ==
    /\ heap = <<>>
    /\ shaft = <<>>
    /\ arch = <<>>
    /\ cycle = EmptyCycle
    /\ mp = EmptyMP
    /\ pc = "construct"
    /\ idx = 1
    /\ design = TRUE
    /\ err = "none"
    /\ cmp = NoCmp

----------------------------------------------------------------------------
(* Spec: flow-path architectures. Up to MaxElems elements are constructed,  *)
(* each named by its position (unique names), each reference None or an    *)
(* element constructed before; then the architecture is built.             *)

Refs == 0..Len(heap)

\* A str attribute naming an element: None or the name of one constructed.
NameRefs == {NoneStr} \cup { heap[i].name : i \in 1..Len(heap) }

FlowChoices(name) ==
    { Inlet(name, t) : t \in Refs }
    \cup { Duct(name, t) : t \in Refs }
    \cup { Splitter(name, tc, tb) : tc \in Refs, tb \in Refs }
    \cup { Mixer(name, None, None, t) : t \in Refs }
    \cup { BleedInter(name, t, tb, bn) :
              t \in Refs, tb \in NameRefs, bn \in BleedLists }
    \cup { BleedIntra(name, src, t, bn) :
              src \in Refs, t \in Refs, bn \in BleedLists }
    \cup { Nozzle(name, None, NoneStr) }
    \cup { Nozzle(name, t, fo) : t \in Refs \ {None}, fo \in {NoneStr, "Fl_I"} }
    \cup { Burner(name, t) : t \in Refs }

ConstructFlow ==
    /\ Len(heap) < MaxElems
    /\ \E self \in FlowChoices(ElName(Len(heap) + 1)) : Construct(self)

Next == ConstructFlow \/ Build

Spec == Init /\ [][Next]_vars

----------------------------------------------------------------------------
(* SpecTurbo: turbomachinery and shafts. Up to MaxTurbo compressors and     *)
(* turbines are constructed, then up to MaxShafts Shafts over them, each    *)
(* with a connections list of length 0 .. MaxConns (or None); then the      *)
(* architecture is built.                                                   *)

Shafts == { i \in 1..Len(heap) : heap[i].kind = "Shaft" }

Turbos == { i \in 1..Len(heap) : IsTurbo(heap[i]) }

ConstructTurbo ==
    /\ Len(heap) < MaxTurbo
    /\ Shafts = {}
    /\ LET i == Len(heap) + 1
       IN  Construct(IF i % 2 = 1 THEN Compressor(ElName(i), None)
                                  ELSE Turbine(ElName(i), None))

ConstructShafts ==
    /\ Cardinality(Shafts) < MaxShafts
    /\ LET name == "s" \o ToString(Cardinality(Shafts) + 1)
       IN  \/ \E conns \in SeqsUpTo(Turbos, MaxConns) :
                  ConstructShaft(Shaft(name, conns, TRUE))
           \/ ConstructShaft(Shaft(name, <<>>, FALSE))

NextTurbo == ConstructTurbo \/ ConstructShafts \/ Build

SpecTurbo == Init /\ [][NextTurbo]_vars

----------------------------------------------------------------------------
(* SpecEq: comparisons. Up to MaxElems objects are constructed, their names *)
(* drawn from a pool of two so that distinct objects with equal fields      *)
(* exist, and any two of them are compared.                                 *)

EqNames == {"a", "b"}

EqChoices ==
    UNION { { ArchElement(n) }
            \cup { Duct(n, t) : t \in Refs }
            \cup { Compressor(n, t) : t \in Refs } : n \in EqNames }

ConstructEq ==
    /\ Len(heap) < MaxElems
    /\ \E self \in EqChoices : Construct(self)

CompareAny == \E a \in 1..Len(heap), b \in 1..Len(heap) : Compare(a, b)

NextEq == ConstructEq \/ CompareAny

SpecEq == Init /\ [][NextEq]_vars

----------------------------------------------------------------------------
(* SpecE2E: the reference turbofan                                          *)
(*   inlet -> duct -> splitter (core -> compressor -> burner -> turbine ->  *)
(*   nozzle_core, bypass -> nozzle_bypass), shaft over compressor, turbine. *)
(* Each element is constructed once its references exist, in any such       *)
(* order; the complete architecture is then built.                          *)

E2ENames == {"inlet", "duct", "splitter", "compressor", "burner", "turbine",
             "nozzle_core", "nozzle_bypass", "shaft"}

\* The names of the elements the element `n` refers to.
E2ERefs(n) ==
    CASE n = "inlet"      -> {"duct"}
      [] n = "duct"       -> {"splitter"}
      [] n = "splitter"   -> {"compressor", "nozzle_bypass"}
      [] n = "compressor" -> {"burner"}
      [] n = "burner"     -> {"turbine"}
      [] n = "turbine"    -> {"nozzle_core"}
      [] n = "shaft"      -> {"compressor", "turbine"}
      [] OTHER            -> {}

Built == { heap[i].name : i \in 1..Len(heap) }

IdOf(n) == CHOOSE i \in 1..Len(heap) : heap[i].name = n

E2EElement(n) ==
    CASE n = "inlet"         -> Inlet(n, IdOf("duct"))
      [] n = "duct"          -> Duct(n, IdOf("splitter"))
      [] n = "splitter"      -> Splitter(n, IdOf("compressor"),
                                         IdOf("nozzle_bypass"))
      [] n = "compressor"    -> Compressor(n, IdOf("burner"))
      [] n = "burner"        -> Burner(n, IdOf("turbine"))
      [] n = "turbine"       -> Turbine(n, IdOf("nozzle_core"))
      [] n = "nozzle_core"   -> Nozzle(n, None, NoneStr)
      [] n = "nozzle_bypass" -> Nozzle(n, None, NoneStr)
      [] n = "shaft"         -> Shaft(n, <<IdOf("compressor"),
                                           IdOf("turbine")>>, TRUE)

ConstructE2E ==
    \E n \in E2ENames \ Built :
        /\ E2ERefs(n) \subseteq Built
        /\ IF n = "shaft" THEN ConstructShaft(E2EElement(n))
                          ELSE Construct(E2EElement(n))

BuildE2E == Built = E2ENames /\ Build

NextE2E == ConstructE2E \/ BuildE2E

SpecE2E == Init /\ [][NextE2E]_vars

----------------------------------------------------------------------------
(* Properties *)

\* Realize and Wire have run over every element of the architecture.
Wired == pc \in {"params", "link", "done"}

\* The flow edges between elements: all but the free-stream edge into an
\* Inlet.
ElementEdges ==
    { i \in 1..Len(cycle.flows) : ModuleOf(cycle.flows[i].src) # "fc" }

\* The plain connections onto a torque port of the module `n`.
TorqueWiring(n) ==
    { cycle.connects[i] : i \in { j \in 1..Len(cycle.connects) :
          ModuleOf(cycle.connects[j].dst) = n } }

E2ETorque ==
    { [src |-> Fmt("compressor", "trq"), dst |-> Fmt("shaft", "trq_0")],
      [src |-> Fmt("turbine", "trq"), dst |-> Fmt("shaft", "trq_1")] }

E2EFlowAndTorque ==
    /\ Cardinality(ElementEdges) = 7
    /\ TorqueWiring("shaft") = E2ETorque
    /\ \A i \in 1..Len(cycle.connects) :
           cycle.connects[i] \in E2ETorque
           \/ ModuleOf(cycle.connects[i].src) = "fc"

\* C1 as claimed: the reference turbofan, realized in design mode and wired,
\* has exactly 8 modules, 7 flow edges between elements and one two-port
\* torque wiring on the shaft.
C1_EightModules ==
    (Wired /\ design) =>
        /\ Len(cycle.modules) = 8
        /\ E2EFlowAndTorque

\* C1 as amended: the reference turbofan, realized in design mode and wired,
\* has exactly 9 modules (one per element, the Shaft's included), 7 flow
\* edges between elements, and the shaft's torque wiring is exactly
\* compressor.trq -> shaft.trq_0 and turbine.trq -> shaft.trq_1 on a
\* two-port shaft module.
C1_EndToEnd ==
    (Wired /\ design) =>
        /\ Len(cycle.modules) = 9
        /\ { cycle.modules[i].name : i \in 1..Len(cycle.modules) } = E2ENames
        /\ \A i \in 1..Len(cycle.modules) :
               cycle.modules[i].name = "shaft" =>
                   cycle.modules[i].el.num_ports = 2
        /\ E2EFlowAndTorque

\* The reference turbofan has been realized in design mode and wired.
C1_Witness ==
    /\ pc = "params"
    /\ design
    /\ Built = E2ENames
    /\ Len(cycle.flows) = 8

\* The element the orchestrator hands to the current phase.
Cur == heap[arch[idx]]

Range(q) == { q[i] : i \in 1..Len(q) }

\* What a step appended to a log.
Added(old, new) == SubSeq(new, Len(old) + 1, Len(new))

\* The step only appended to the log.
Extends(old, new) ==
    Len(new) >= Len(old) /\ SubSeq(new, 1, Len(old)) = old

\* The Shafts whose construction returned and that list the element e.
ShaftsOver(e) ==
    { s \in Range(arch) :
          heap[s].kind = "Shaft" /\ e \in Range(heap[s].connections) }

\* A Shaft was constructed by the step, over a list holding an element that
\* was bound already.
RebindingStep ==
    /\ Len(heap') = Len(heap) + 1
    /\ heap'[Len(heap')].kind = "Shaft"
    /\ \E i \in 1..Len(heap'[Len(heap')].connections) :
           shaft[heap'[Len(heap')].connections[i]] # None

C3_Step ==
    /\ \A e \in 1..Len(shaft) : shaft[e] # None => shaft'[e] = shaft[e]
    /\ RebindingStep => (err' = DuplicateShaftBinding /\ arch' = arch)
    /\ \A e \in Turbos' : ShaftsOver(e)' \subseteq {shaft'[e]}
    /\ \A e \in Turbos' : Cardinality(ShaftsOver(e)') <= 1

\* C3: constructing a Shaft over an element that is bound already raises
\* DuplicateShaftBinding (the constructor returns no Shaft); a back-reference
\* once set is never changed by a later construction; and every compressor
\* or turbine is listed by at most one constructed Shaft, the one its
\* back-reference names.
C3_ShaftBinding == [][C3_Step]_vars

\* A second Shaft over a compressor bound to a first one has just failed:
\* the compressor still names the first.
C3_Witness ==
    /\ err = DuplicateShaftBinding
    /\ \E e \in Turbos, s2 \in Shafts \ Range(arch) :
           /\ shaft[e] \in Range(arch)
           /\ shaft[e] # s2
           /\ e \in Range(heap[s2].connections)
           /\ e \in Range(heap[shaft[e]].connections)

C4_Step ==
    (pc = "realize" /\ Cur.kind = "Shaft" /\ Cur.has_connections) =>
        /\ Len(Cur.connections) = 1 =>
               /\ pc' = "failed"
               /\ err' = InvalidShaftTopology
               /\ cycle' = cycle
        /\ Len(Cur.connections) >= 2 =>
               /\ pc' # "failed"
               /\ err' = "none"
               /\ Extends(cycle.modules, cycle'.modules)
               /\ Len(Added(cycle.modules, cycle'.modules)) = 1
               /\ Added(cycle.modules, cycle'.modules)[1].name = Cur.name
               /\ Added(cycle.modules, cycle'.modules)[1].el.cls = "Shaft"
               /\ Added(cycle.modules, cycle'.modules)[1].el.num_ports
                      = Len(Cur.connections)

\* C4: realizing a Shaft with exactly one connection raises
\* InvalidShaftTopology and leaves the container as it was; realizing a Shaft
\* with two or more connections succeeds and registers one shaft module, under
\* the Shaft's name, with as many torque ports as connections.
C4_ShaftTopology == [][C4_Step]_vars

\* The build has failed realizing a Shaft with exactly one connection.
C4_Witness ==
    /\ pc = "failed"
    /\ err = InvalidShaftTopology
    /\ Cur.kind = "Shaft"
    /\ Len(Cur.connections) = 1
    /\ \A i \in 1..Len(cycle.modules) : cycle.modules[i].name # Cur.name

C5_Step ==
    (pc = "realize" /\ IsTurbo(Cur)) =>
        IF shaft[arch[idx]] = None
        THEN /\ pc' = "failed"
             /\ err' = UnboundTurbomachinery
             /\ cycle' = cycle
        ELSE /\ pc' # "failed"
             /\ err' = "none"
             /\ Extends(cycle.modules, cycle'.modules)
             /\ Len(Added(cycle.modules, cycle'.modules)) = 1
             /\ Added(cycle.modules, cycle'.modules)[1].name = Cur.name
             /\ Added(cycle.modules, cycle'.modules)[1].promotes_inputs
                    = << <<"Nmech",
                           heap[shaft[arch[idx]]].name \o "_Nmech">> >>

\* C5: realizing a Compressor or Turbine that has no bound Shaft raises
\* UnboundTurbomachinery, whatever the design flag, and leaves the container
\* as it was (no module, no input default); with a bound Shaft it registers
\* exactly one module, under the element's name, whose Nmech input is
\* promoted to '<shaft name>_Nmech'.
C5_UnboundTurbomachinery == [][C5_Step]_vars

\* An off-design build has realized a bound compressor and then failed on an
\* unbound turbine.
C5_Witness ==
    /\ pc = "failed"
    /\ ~design
    /\ err = UnboundTurbomachinery
    /\ IsTurbo(Cur)
    /\ shaft[arch[idx]] = None
    /\ Len(cycle.modules) = 1
    /\ cycle.modules[1].promotes_inputs = << <<"Nmech", "s1_Nmech">> >>
    /\ cycle.defaults = <<>>

\* A flow edge with pyc_connect_flow's default flags.
Edge(src, dst) ==
    [src |-> src, dst |-> dst, connect_w |-> TRUE, connect_stat |-> TRUE]

C6_Original_Step ==
    (pc = "wire" /\ Cur.kind = "Splitter") =>
        /\ Len(Added(cycle.flows, cycle'.flows)) = 2
        /\ Added(cycle.flows, cycle'.flows)[1] =
               Edge(Fmt(Cur.name, "Fl_O1"),
                    Fmt(heap[Cur.target_core].name, "Fl_I"))
        /\ Added(cycle.flows, cycle'.flows)[2] =
               Edge(Fmt(Cur.name, "Fl_O2"),
                    Fmt(heap[Cur.target_bypass].name, "Fl_I"))

\* C6 as claimed: the Wire phase of every Splitter produces exactly two flow
\* edges, Fl_O1 to the core target's Fl_I and Fl_O2 to the bypass target's
\* Fl_I.
C6_AlwaysTwoEdges == [][C6_Original_Step]_vars

C6_Step ==
    (pc = "wire" /\ Cur.kind = "Splitter") =>
        /\ err' = "none"
        /\ Extends(cycle.flows, cycle'.flows)
        /\ cycle'.connects = cycle.connects
        /\ Added(cycle.flows, cycle'.flows) =
               (IF Cur.target_core = None THEN <<>>
                ELSE << Edge(Fmt(Cur.name, "Fl_O1"),
                             Fmt(heap[Cur.target_core].name, "Fl_I")) >>)
               \o
               (IF Cur.target_bypass = None THEN <<>>
                ELSE << Edge(Fmt(Cur.name, "Fl_O2"),
                             Fmt(heap[Cur.target_bypass].name, "Fl_I")) >>)
        /\ (Cur.target_core # None /\ Cur.target_bypass # None) =>
               Len(Added(cycle.flows, cycle'.flows)) = 2

\* C6 as amended: the Wire phase of a Splitter produces one flow edge per
\* target that is given, Fl_O1 to the core target's Fl_I and Fl_O2 to the
\* bypass target's Fl_I, and nothing else: exactly two edges when both
\* targets are given, none for a branch whose target is None.
C6_SplitterEdges == [][C6_Step]_vars

\* A Splitter with both targets has been wired: its two edges are there.
C6_Witness ==
    /\ Wired
    /\ \E e \in Range(arch) :
           /\ heap[e].kind = "Splitter"
           /\ heap[e].target_core # None
           /\ heap[e].target_bypass # None
           /\ Edge(Fmt(heap[e].name, "Fl_O1"),
                   Fmt(heap[heap[e].target_core].name, "Fl_I"))
                  \in Range(cycle.flows)
           /\ Edge(Fmt(heap[e].name, "Fl_O2"),
                   Fmt(heap[heap[e].target_bypass].name, "Fl_I"))
                  \in Range(cycle.flows)

Link(src, target) == [src |-> src, target |-> target]

C7_Original_Step ==
    (pc = "link" /\ Cur.kind = "Compressor") =>
        /\ Len(Added(mp.links, mp'.links)) = 5
        /\ \A l \in Range(Added(mp.links, mp'.links)) :
               l.src = l.target /\ ModuleOf(l.src) = Cur.name

\* C7 as claimed: a Compressor's LinkDesignOffDesign phase produces exactly
\* five links and each links a path under the compressor's name to the
\* identical path.
C7_IdenticalPaths == [][C7_Original_Step]_vars

C7_Step ==
    (pc = "link" /\ Cur.kind = "Compressor") =>
        /\ err' = "none"
        /\ Extends(mp.links, mp'.links)
        /\ mp'.params = mp.params
        /\ Added(mp.links, mp'.links) =
               << Link(Fmt(Cur.name, "s_PR"), Fmt(Cur.name, "s_PR")),
                  Link(Fmt(Cur.name, "s_Wc"), Fmt(Cur.name, "s_Wc")),
                  Link(Fmt(Cur.name, "s_eff"), Fmt(Cur.name, "s_eff")),
                  Link(Fmt(Cur.name, "s_Nc"), Fmt(Cur.name, "s_Nc")),
                  Link(Fmt(Cur.name, "Fl_O:stat:area"),
                       Fmt(Cur.name, "area")) >>

\* C7 as amended: a Compressor's LinkDesignOffDesign phase produces exactly
\* five links under the compressor's name: s_PR, s_Wc, s_eff and s_Nc each
\* linked to the identical path, and the exit area, whose design-point path
\* 'Fl_O:stat:area' is linked to the different off-design path 'area'.
C7_CompressorLinks == [][C7_Step]_vars

\* A build has linked a compressor: its exit-area link is in the container.
C7_Witness ==
    /\ pc = "done"
    /\ \E e \in Range(arch) :
           /\ heap[e].kind = "Compressor"
           /\ Link(Fmt(heap[e].name, "Fl_O:stat:area"),
                   Fmt(heap[e].name, "area")) \in Range(mp.links)
           /\ Link(Fmt(heap[e].name, "s_Nc"), Fmt(heap[e].name, "s_Nc"))
                  \in Range(mp.links)

Param(name, val) == [name |-> name, val |-> val]

C8_Original_Step ==
    /\ (pc = "realize" /\ Cur.kind = "BleedIntra") =>
           cycle'.modules = cycle.modules
    /\ (pc = "params" /\ Cur.kind = "BleedIntra") =>
           Len(Added(mp.params, mp'.params)) =
               IF Cur.target # None THEN 4 ELSE 0

\* C8 as claimed: BleedIntra's Realize registers no module, and its
\* DeclareParameters registers exactly four parameters when a target is
\* present and none when it is absent, whatever its bleed-name list.
C8_FourParameters == [][C8_Original_Step]_vars

\* The four parameters BleedIntra declares for its i-th bleed name.
BleedIntraParams(self, i) ==
    << Param(Fmt(heap[self.source].name, self.bleed_names[i] \o ":frac_W"),
             self.source_frac_w),
       Param(Fmt(heap[self.source].name, self.bleed_names[i] \o ":frac_P"),
             self.source_frac_p),
       Param(Fmt(heap[self.source].name,
                 self.bleed_names[i] \o ":frac_work"),
             self.source_frac_work),
       Param(Fmt(heap[self.target].name, self.bleed_names[i] \o ":frac_P"),
             self.target_frac_p) >>

C8_Step ==
    /\ (pc = "realize" /\ Cur.kind = "BleedIntra") =>
           cycle' = cycle /\ err' = "none"
    /\ (pc = "params" /\ Cur.kind = "BleedIntra") =>
           /\ Extends(mp.params, mp'.params)
           /\ mp'.links = mp.links
           /\ Cur.target = None => mp'.params = mp.params
           /\ (Cur.target # None /\ Cur.source # None) =>
                  /\ err' = "none"
                  /\ Len(Added(mp.params, mp'.params))
                         = 4 * Len(Cur.bleed_names)
                  /\ \A i \in 1..Len(Cur.bleed_names) :
                         SubSeq(Added(mp.params, mp'.params),
                                4 * i - 3, 4 * i)
                             = BleedIntraParams(Cur, i)
           /\ (Cur.target # None /\ Cur.source = None) =>
                  mp'.params = mp.params

\* C8 as amended: BleedIntra's Realize leaves the container as it was, and
\* its DeclareParameters registers four parameters per bleed name (frac_W,
\* frac_P and frac_work on the source's port, frac_P on the target's) when a
\* target and a source are present, 4 * len(bleed_names) in all, and none
\* when the target is absent.
C8_BleedIntraParameters == [][C8_Step]_vars

\* A BleedIntra with source, target and two bleed names has declared its
\* eight parameters.
C8_Witness ==
    /\ pc \in {"link", "done"}
    /\ \E e \in Range(arch) :
           /\ heap[e].kind = "BleedIntra"
           /\ heap[e].target # None
           /\ heap[e].source # None
           /\ Len(heap[e].bleed_names) = 2
           /\ Len(mp.params) >= 8
           /\ \A k \in 1..4 : BleedIntraParams(heap[e], 2)[k]
                                  \in Range(mp.params)
    /\ \A i \in 1..Len(cycle.modules) :
           heap[IdOf(cycle.modules[i].name)].kind # "BleedIntra"

C9_Original_Step ==
    (pc = "link" /\ Cur.kind = "BleedInter") =>
        Added(mp.links, mp'.links) =
            IF Cur.target = None THEN <<>>
            ELSE << Link(Fmt(Cur.name, "Fl_O:stat:area"),
                         Fmt(Cur.name, "area")) >>

C9_Step ==
    (pc = "link" /\ Cur.kind = "BleedInter") =>
        /\ err' = "none"
        /\ Extends(mp.links, mp'.links)
        /\ mp'.params = mp.params
        /\ Added(mp.links, mp'.links) =
               << Link(Fmt(Cur.name, "Fl_O:stat:area"),
                       Fmt(Cur.name, "area")) >>

RefsOf(self) ==
    ({ self[f] : f \in DOMAIN self \cap RefFields }
     \cup (IF self.kind = "Shaft" THEN Range(self.connections) ELSE {}))
    \ {None}

\* The architecture the claim C10 is about: unique names, every referenced
\* element (the bleed-receiving element of a BleedInter, named by a string,
\* included) an element of the architecture, every compressor and turbine
\* bound to a Shaft.
WellFormed ==
    /\ \A i, j \in Range(arch) : heap[i].name = heap[j].name => i = j
    /\ \A e \in Range(arch) : RefsOf(heap[e]) \subseteq Range(arch)
    /\ \A e \in Range(arch) :
           (heap[e].kind = "BleedInter" /\ heap[e].target # None
               /\ heap[e].bleed_names # <<>>)
           => heap[e].target_bleed \in { heap[i].name : i \in Range(arch) }
    /\ \A e \in Range(arch) : IsTurbo(heap[e]) => shaft[e] # None

Registered == { cycle.modules[i].name : i \in 1..Len(cycle.modules) }

Endpoints ==
    UNION { {c.src, c.dst} : c \in Range(cycle.flows) \cup Range(cycle.connects) }

Resolved == \A p \in Endpoints : ModuleOf(p) \in Registered \cup {"fc"}

\* C10 as claimed: in a well-formed architecture, once Realize and then Wire
\* have run over every element, every endpoint of every flow edge and plain
\* connection addresses 'fc' or a module registered during Realize.
C10_ReferentialIntegrity == (Wired /\ WellFormed) => Resolved

\* C2 as claimed: two element objects compare equal only when they are the
\* same object.
C2_IdentityEquality ==
    cmp.a # None => (cmp.eq <=> cmp.a = cmp.b)

\* The step constructed a Shaft over a list holding an element that was
\* bound already, and the construction raised DuplicateShaftBinding.
FailedShaftStep == RebindingStep /\ err' = DuplicateShaftBinding

C11_Step ==
    FailedShaftStep => \A e \in 1..Len(shaft) : shaft'[e] = shaft[e]

\* C11 as claimed: a Shaft construction that raises DuplicateShaftBinding
\* changes no element's shaft back-reference: the elements listed before the
\* offending one are bound afterwards as they were before.
C11_FailedConstructionFrame == [][C11_Step]_vars

====
